---- MODULE Spec2Model ----
(***************************************************************************)
(* Model of buffs.py: a scraper that enumerates the item-detail URLs of a  *)
(* category page by page, fetches every detail page concurrently under one *)
(* shared asyncio.Semaphore, normalises each payload into a (food,         *)
(* food_hq) pair, sorts, applies name overrides and writes one file per    *)
(* category.                                                               *)
(***************************************************************************)
EXTENDS Integers, Sequences, FiniteSets, TLC

\* ------------------------------------------------------------------ bounds
MaxN == 2          \* largest --concurrency value explored
MaxTotal == 2      \* largest paging.total a listing response reports
MaxUrls == 2       \* most detail URLs one category enumerates
MaxFail == 2       \* most failed attempts (exceptions swallowed) per category

\* ------------------------------------------------------- data of the model
CategoryOrder == <<"Food", "Medicine">>

URLS == {"u1", "u2"}
NoUrl == "no_url_api"          \* a listing result that lacks the url_api key

Names == {"A", "B"}            \* English item names, "A" < "B" as Python strings
Values == Names \cup {""}      \* values an override table may store
Ilvls == {1, 2}
Statuses == {200, 500}
Langs == {"en", "ko"}          \* language codes given with --lang-file

\* Python's ordering of the strings of the model ("" < "A" < "B").
StrOrd(s) == CASE s = "" -> 0 [] s = "A" -> 1 [] s = "B" -> 2 [] OTHER -> 3
BoolOrd(b) == IF b THEN 1 ELSE 0

NoData == [kind |-> "none"]
NoFile == [written |-> FALSE, recipes |-> <<>>]
File(recipes) == [written |-> TRUE, recipes |-> recipes]

\* --------------------------------------------------------- sequence helpers
RECURSIVE Concat(_)
Concat(ss) == IF ss = <<>> THEN <<>> ELSE Head(ss) \o Concat(Tail(ss))

SeqsUpTo(S, n) == UNION {[1..k -> S] : k \in 0..n}

\* ------------------------------------------------------ remote responses
\* A response as one attempt sees it: the transport fails (session.get or
\* res.text() raises), or a body arrives with some HTTP status.
GarbageBody == [kind |-> "garbage", results |-> <<>>, total |-> 0, data |-> <<>>]
NetFail == [net |-> "fail", status |-> 0, body |-> GarbageBody]
Responses(bodies) ==
    {NetFail} \cup [net : {"ok"}, status : Statuses, body : bodies]

\* Listing bodies: not JSON; JSON with results but without
\* items.paging.total; or a listing, whose results may lack url_api.
ListingBody(kind, results, total) ==
    [kind |-> kind, results |-> results, total |-> total, data |-> <<>>]
ListingBodies ==
    {GarbageBody, ListingBody("nopaging", <<"u1">>, 0)}
    \cup {ListingBody("listing", rs, t) :
             rs \in SeqsUpTo(URLS, MaxUrls) \cup {<<NoUrl>>, <<"u1", NoUrl>>},
             t \in 0..MaxTotal}

Attr(id, v) ==
    [id |-> id, value |-> v, percent |-> v + 1, value_hq |-> v + 2, percent_hq |-> v + 3]
AttrLists == {<<>>, <<Attr(70, 10)>>}

Item(n, l, a) ==
    [name_en |-> n, name_fr |-> "F", name_de |-> "D", name_ja |-> "J",
     level_item |-> l, attributes_params |-> a]
Items == {Item(n, l, a) : n \in Names, l \in Ilvls, a \in AttrLists}

Drop(d, k) == [x \in DOMAIN d \ {k} |-> d[x]]
ItemKeys ==
    {"name_en", "name_fr", "name_de", "name_ja", "level_item", "attributes_params"}
AttrKeys == {"value", "percent", "value_hq", "percent_hq"}
\* JSON objects that lack a key fetch_item reads.
MalformedItems ==
    {Drop(Item("A", 1, <<>>), k) : k \in {"name_en", "level_item", "attributes_params"}}
    \cup {Item("A", 1, <<Drop(Attr(70, 10), "value_hq")>>)}

\* The items the remote catalog serves during a run.
ServedItems == {Item("A", 1, <<Attr(70, 10)>>), Item("B", 1, <<>>)}

DetailBody(data) == [kind |-> "json", results |-> <<>>, total |-> 0, data |-> data]
DetailBodies == {GarbageBody} \cup {DetailBody(d) : d \in ServedItems \cup MalformedItems}

\* ---------------------------------------------- functions of the program
\* parse_item_links_page: json.loads, then data['items']['results'] and
\* data['items']['paging']['total'].  It raises (and the fetch retries)
\* unless the body is a listing.
ParseLinksRaises(body) == body.kind # "listing"
\* The value it returns: a LAZY map over the results (x['url_api'] is only
\* evaluated when the caller consumes it) and the page total.
parse_item_links_page(body) == [urls |-> body.results, total |-> body.total]
\* Consuming the lazy map raises KeyError when a result has no url_api.
UrlsRaise(page_urls) == \E i \in DOMAIN page_urls : page_urls[i] = NoUrl

\* json.loads in fetch_page: raises unless the body is JSON.
JsonLoadsRaises(body) == body.kind # "json"

\* fetch_item reads these keys of the payload without any guard.
FetchItemRaises(data) ==
    \/ ~(ItemKeys \subseteq DOMAIN data)
    \/ \E i \in DOMAIN data.attributes_params :
          LET a == data.attributes_params[i] IN
          \/ "id" \notin DOMAIN a
          \/ a.id \in {70, 71, 11} /\ ~(AttrKeys \subseteq DOMAIN a)

Stat(v, p, value, percent) == (v :> value) @@ (p :> percent)

\* (an iteration that copies value/percent into both records)
ApplyAttrNormalOnly(rec, a, hq) ==
    CASE a.id = 70 ->
           Stat("craftsmanship_value", "craftsmanship_percent", a.value, a.percent) @@ rec
      [] a.id = 71 ->
           Stat("control_value", "control_percent", a.value, a.percent) @@ rec
      [] a.id = 11 ->
           Stat("cp_value", "cp_percent", a.value, a.percent) @@ rec
      [] OTHER -> rec
\* One iteration of the loop over data["attributes_params"] for one record.
ApplyAttr(rec, a, hq) ==
    LET value == IF hq THEN a.value_hq ELSE a.value
        percent == IF hq THEN a.percent_hq ELSE a.percent
    IN  CASE a.id = 70 ->
               Stat("craftsmanship_value", "craftsmanship_percent", value, percent) @@ rec
          [] a.id = 71 ->
               Stat("control_value", "control_percent", value, percent) @@ rec
          [] a.id = 11 ->
               Stat("cp_value", "cp_percent", value, percent) @@ rec
          [] OTHER -> rec

RECURSIVE ApplyAttrs(_, _, _)
ApplyAttrs(rec, attrs, hq) ==
    IF attrs = <<>> THEN rec
    ELSE ApplyAttrs(ApplyAttr(rec, Head(attrs), hq), Tail(attrs), hq)

BaseRecord(data, hq) ==
    [name |-> [en |-> data.name_en, fr |-> data.name_fr,
               de |-> data.name_de, ja |-> data.name_ja],
     hq |-> hq,
     ilvl |-> data.level_item]

\* (a pair whose second record is a copy of the first)
fetch_item_same_quality(data) ==
    << ApplyAttrs(BaseRecord(data, FALSE), data.attributes_params, FALSE),
       ApplyAttrs(BaseRecord(data, FALSE), data.attributes_params, FALSE) >>
\* fetch_item after fetch_page returned: the pair [food, food_hq].
fetch_item(data) ==
    << ApplyAttrs(BaseRecord(data, FALSE), data.attributes_params, FALSE),
       ApplyAttrs(BaseRecord(data, TRUE), data.attributes_params, TRUE) >>

\* The sort key (r['ilvl'], r['name']['en'], r['hq']) and Python's tuple order.
SortKey(r) == <<r.ilvl, StrOrd(r.name.en), BoolOrd(r.hq)>>
KeyLess(a, b) ==
    \/ a[1] < b[1]
    \/ a[1] = b[1] /\ a[2] < b[2]
    \/ a[1] = b[1] /\ a[2] = b[2] /\ a[3] < b[3]
KeyGeq(a, b) == ~KeyLess(a, b)

\* list.sort(key=..., reverse=True): descending and stable (records with
\* equal keys keep their relative order).  food[j] comes before food[i] in
\* the sorted list when its key is greater, or equal with j < i; the place
\* of a record is one more than the number of records before it.
SortDesc(food) ==
    LET key == [i \in DOMAIN food |-> SortKey(food[i])]
        place == [i \in DOMAIN food |->
                    1 + Cardinality({j \in DOMAIN food :
                                        \/ KeyLess(key[i], key[j])
                                        \/ j < i /\ key[j] = key[i]})]
    IN  [k \in DOMAIN food |-> food[CHOOSE i \in DOMAIN food : place[i] = k]]

\* (names.get(english_name, english_name): an empty value is kept)
GetDefault(names, english_name) ==
    IF english_name \in DOMAIN names THEN names[english_name] ELSE english_name
\* names.get(english_name) or english_name
GetOr(names, english_name) ==
    IF english_name \in DOMAIN names /\ names[english_name] # ""
    THEN names[english_name]
    ELSE english_name

\* The inner loop over additional_languages.keys() for one record, in the
\* dict's insertion order; english_name is re-read on every iteration.
RECURSIVE LocalizeRecord(_, _)
LocalizeRecord(f, languages) ==
    IF languages = <<>> THEN f
    ELSE LET l == Head(languages)
             english_name == f.name.en
             g == [f EXCEPT !.name = (l.lang :> GetOr(l.names, english_name)) @@ f.name]
         IN  LocalizeRecord(g, Tail(languages))

Localize(food, languages) ==
    [i \in DOMAIN food |-> LocalizeRecord(food[i], languages)]

\* (a list with the later records of an equal (name, ilvl, hq) removed)
RECURSIVE Dedup(_)
Dedup(list) ==
    IF list = <<>> THEN <<>>
    ELSE LET r == list[Len(list)]
             front == SubSeq(list, 1, Len(list) - 1)
         IN  IF \E i \in DOMAIN front :
                    /\ front[i].name.en = r.name.en
                    /\ front[i].ilvl = r.ilvl
                    /\ front[i].hq = r.hq
             THEN Dedup(front)
             ELSE Append(Dedup(front), r)
FinalizedDeduplicated(food, languages) == Dedup(Localize(SortDesc(food), languages))
\* fetch_all_items from the sort on: the list handed to json.dump.
Finalized(food, languages) == Localize(SortDesc(food), languages)

\* ------------------------------------------------- command-line arguments
\* One --lang-file argument: its text splits at "=" into one, two or three
\* parts; the file is missing, not JSON, or a JSON object of names.
LangFile(lang, names) ==
    [form |-> "LANG=FILE", lang |-> lang, file |-> "json", names |-> names]
GoodLangFiles == {LangFile("en", ("A" :> "B"))}
BadLangFiles ==
    {[form |-> "LANG", lang |-> "ko", file |-> "json", names |-> <<>>],
     [form |-> "LANG=FILE=X", lang |-> "ko", file |-> "json", names |-> <<>>],
     [form |-> "LANG=FILE", lang |-> "ko", file |-> "missing", names |-> <<>>],
     [form |-> "LANG=FILE", lang |-> "ko", file |-> "badjson", names |-> <<>>]}
LangFileArgs ==
    {<<>>} \cup {<<a>> : a \in GoodLangFiles \cup BadLangFiles}
           \cup {<<a, b>> : a \in GoodLangFiles, b \in BadLangFiles}

\* (only a file that cannot be opened stops the run)
LangFileRaisesOnOpen(a) == a.file = "missing"
\* lang, path = f.split("=", 2) / open(path) / json.load(fp) raise.
LangFileRaises(a) == a.form # "LANG=FILE" \/ a.file # "json"

\* additional_languages[lang] = json.load(fp): a dict keeps the position of
\* a key's first insertion and the value of its last.
DictSet(d, lang, names) ==
    IF \E i \in DOMAIN d : d[i].lang = lang
    THEN [i \in DOMAIN d |-> IF d[i].lang = lang THEN [lang |-> lang, names |-> names] ELSE d[i]]
    ELSE Append(d, [lang |-> lang, names |-> names])

RECURSIVE LoadLanguages(_, _)
LoadLanguages(d, args) ==
    IF args = <<>> THEN d
    ELSE LoadLanguages(DictSet(d, Head(args).lang, Head(args).names), Tail(args))

\* -------------------------------------------------------------- the state
VARIABLES
    phase,                 \* "main", "urls", "items", "exit", "error"
    N,                     \* int(args.concurrency)
    sem,                   \* FETCH_SEMAPHORE's value: the permits available
    additional_languages,  \* the override tables, in dict order
    cat,                   \* index of the category scrape_items is at
    page,                  \* fetch_item_urls: page
    urls,                  \* fetch_item_urls: urls
    lister,                \* the current fetch_item_links_page call
    tasks,                 \* the fetch_item tasks of fetch_items
    food,                  \* fetch_items: food, in completion order
    out,                   \* the files out/<category>.json
    requested,             \* listing pages requested for this category
    got,                   \* the listing bodies that parsed, one per page
    returned,              \* the fetch that returned last: its attempts and value
    failures               \* exceptions swallowed so far in this category

vars == <<phase, N, sem, additional_languages, cat, page, urls, lister, tasks,
          food, out, requested, got, returned, failures>>

NoResp == [net |-> "none", status |-> 0, body |-> GarbageBody]
NoReturn == [kind |-> "none", attempts |-> 0, fails |-> 0, resp |-> NoResp, value |-> NoData]

\* A fetch at the top of its "while True": nothing attempted yet.
NewFetch == [pc |-> "acquire", attempts |-> 0, fails |-> 0]
Idle == [pc |-> "idle", attempts |-> 0, fails |-> 0]
NewTask(url) == [url |-> url, pc |-> "acquire", attempts |-> 0, fails |-> 0, data |-> NoData]

Category == CategoryOrder[cat]

\* Tasks inside "async with FETCH_SEMAPHORE".
Holders ==
    (IF lister.pc = "get" THEN 1 ELSE 0)
    + Cardinality({i \in DOMAIN tasks : tasks[i].pc = "get"})

Init ==
    /\ phase = "main"
    /\ N = 0
    /\ sem = 0
    /\ additional_languages = <<>>
    /\ cat = 1
    /\ page = 1
    /\ urls = <<>>
    /\ lister = Idle
    /\ tasks = <<>>
    /\ food = <<>>
    /\ out = [c \in {CategoryOrder[i] : i \in DOMAIN CategoryOrder} |-> NoFile]
    /\ requested = {}
    /\ got = <<>>
    /\ returned = NoReturn
    /\ failures = 0

\* ------------------------------------------------------- the semaphore
\* asyncio.Semaphore: acquire() returns only while the value is positive and
\* decrements it; leaving "async with" increments it, on every exit path.
\* (a semaphore that never blocks)
CanAcquireAlways(value) == TRUE
CanAcquire(value) == value > 0
Acquired(value) == value - 1
\* (a section left without giving the permit back)
Kept(value) == value
Released(value) == value + 1
\* (a release that is skipped when the protected section raises)
LeakedOnError(value) == value
\* Leaving "async with FETCH_SEMAPHORE" because of an exception.
ReleasedOnError(value) == value + 1

\* The attempt raises inside the try: the transport failed or the parse did.
ListAttemptRaises(r) == r.net = "fail" \/ ParseLinksRaises(r.body)
PageAttemptRaises(r) == r.net = "fail" \/ JsonLoadsRaises(r.body)

\* Entering "async with FETCH_SEMAPHORE" and issuing the GET.
Attempt(f) == [f EXCEPT !.pc = "get", !.attempts = @ + 1]
\* (a retry that re-issues the GET without going back to the acquire)
RetryInPlace(f) == [f EXCEPT !.fails = @ + 1]
\* (a fetch that gives up when its attempt raises)
RetryGivesUp(f) == [f EXCEPT !.pc = "raised", !.fails = @ + 1]
\* "except: pass" and the next turn of "while True".
Retry(f) == [f EXCEPT !.pc = "acquire", !.fails = @ + 1]
\* "break" and "return data".
Return(kind, f, r, value) ==
    [kind |-> kind, attempts |-> f.attempts, fails |-> f.fails, resp |-> r, value |-> value]

\* ------------------------------------------------------------------ main
\* main(): parse the arguments, load the override files, create the
\* semaphore and start scrape_items with the first category.
Main(c, args) ==
    /\ phase = "main"
    /\ \A i \in DOMAIN args : ~LangFileRaises(args[i])
    /\ additional_languages' = LoadLanguages(<<>>, args)
    /\ N' = c
    /\ sem' = c
    /\ phase' = "urls"
    /\ lister' = NewFetch
    /\ UNCHANGED <<cat, page, urls, tasks, food, out, requested, got, returned, failures>>

\* An override argument that cannot be split or loaded: main() raises
\* before the semaphore and the session exist.
MainConfigError(args) ==
    /\ phase = "main"
    /\ \E i \in DOMAIN args : LangFileRaises(args[i])
    /\ phase' = "error"
    /\ UNCHANGED <<N, sem, additional_languages, cat, page, urls, lister, tasks,
                   food, out, requested, got, returned, failures>>

\* ------------------------------------------------- fetch_item_links_page
ListAcquire ==
    /\ phase = "urls"
    /\ lister.pc = "acquire"
    /\ CanAcquire(sem)
    /\ sem' = Acquired(sem)
    /\ lister' = Attempt(lister)
    /\ requested' = requested \cup {page}
    /\ UNCHANGED <<phase, N, additional_languages, cat, page, urls, tasks, food,
                   out, got, returned, failures>>

\* The attempt raises: the permit is released and the loop tries again.
ListFail(r) ==
    /\ phase = "urls"
    /\ lister.pc = "get"
    /\ ListAttemptRaises(r)
    /\ failures < MaxFail
    /\ sem' = ReleasedOnError(sem)
    /\ lister' = Retry(lister)
    /\ failures' = failures + 1
    /\ UNCHANGED <<phase, N, additional_languages, cat, page, urls, tasks, food,
                   out, requested, got, returned>>

\* (pages prepended; one page too many)
ExtendFront(list, page_urls) == page_urls \o list
MorePagesInclusive(p, total) == p <= total
\* (a page number advanced past a page that was never fetched)
PageAfterNext(p) == p + 2
\* fetch_item_urls: "page += 1".
NextPage(p) == p + 1
\* fetch_item_urls: "urls += page_urls" and "if page < total".
Extend(list, page_urls) == list \o page_urls
MorePages(p, total) == p < total

\* The attempt parses: fetch_item_links_page returns and fetch_item_urls
\* consumes the lazy url map, then asks for the next page or returns.
ListOk(r) ==
    /\ phase = "urls"
    /\ lister.pc = "get"
    /\ ~ListAttemptRaises(r)
    /\ sem' = Released(sem)
    /\ LET data == parse_item_links_page(r.body) IN
       IF UrlsRaise(data.urls)
          THEN \* KeyError out of "urls += page_urls": the run ends in a traceback
               /\ phase' = "error"
               /\ lister' = [lister EXCEPT !.pc = "raised"]
               /\ UNCHANGED <<page, urls, got, returned>>
          ELSE /\ Len(urls) + Len(data.urls) <= MaxUrls
               /\ returned' = Return("links", lister, r, data)
               /\ urls' = Extend(urls, data.urls)
               /\ got' = Append(got, [results |-> r.body.results, total |-> r.body.total])
               /\ IF MorePages(page, data.total)
                  THEN /\ page' = NextPage(page)
                       /\ lister' = NewFetch
                  ELSE /\ lister' = [lister EXCEPT !.pc = "returned"]
                       /\ UNCHANGED page
               /\ UNCHANGED phase
    /\ UNCHANGED <<N, additional_languages, cat, tasks, food, out, requested, failures>>

\* The fetch_item_urls task has completed: wait_with_progress yields its
\* list to fetch_all_items, which calls fetch_items; that creates one
\* fetch_item task per url.  The enumeration's locals are gone.
\* (the detail phase started as soon as a page has returned)
PageReturned(l) == l.pc = "returned" \/ l = NewFetch
\* fetch_all_items: "async for r in results" got fetch_item_urls' list.
EnumerationReturned(l) == l.pc = "returned"

StartItems ==
    /\ phase = "urls"
    /\ EnumerationReturned(lister)
    /\ phase' = "items"
    /\ tasks' = [i \in DOMAIN urls |-> NewTask(urls[i])]
    /\ food' = <<>>
    /\ lister' = Idle
    /\ got' = <<>>
    /\ requested' = {}
    /\ page' = 1
    /\ urls' = <<>>
    /\ returned' = NoReturn
    /\ UNCHANGED <<N, sem, additional_languages, cat, out, failures>>

\* ------------------------------------------------ fetch_page / fetch_item
PageAcquire(i) ==
    /\ phase = "items"
    /\ tasks[i].pc = "acquire"
    /\ CanAcquire(sem)
    /\ sem' = Acquired(sem)
    /\ tasks' = [tasks EXCEPT ![i] = Attempt(@)]
    /\ UNCHANGED <<phase, N, additional_languages, cat, page, urls, lister, food,
                   out, requested, got, returned, failures>>

PageFail(i, r) ==
    /\ phase = "items"
    /\ tasks[i].pc = "get"
    /\ PageAttemptRaises(r)
    /\ failures < MaxFail
    /\ sem' = ReleasedOnError(sem)
    /\ tasks' = [tasks EXCEPT ![i] = Retry(@)]
    /\ failures' = failures + 1
    /\ UNCHANGED <<phase, N, additional_languages, cat, page, urls, lister, food,
                   out, requested, got, returned>>

\* (the list rebound to the result that arrived last)
CollectLast(list, r) == r
\* fetch_items: "food.extend(r)" for the result wait_with_progress yields.
Collect(list, r) == list \o r

\* The body is JSON: fetch_page returns it, and fetch_item builds the pair
\* outside of any try.  wait_with_progress yields results in completion
\* order and re-raises a task's exception into fetch_items.
PageOk(i, r) ==
    /\ phase = "items"
    /\ tasks[i].pc = "get"
    /\ ~PageAttemptRaises(r)
    /\ sem' = Released(sem)
    /\ LET data == r.body.data IN
       IF FetchItemRaises(data)
          THEN \* KeyError out of fetch_item: the run ends in a traceback
               /\ phase' = "error"
               /\ tasks' = [tasks EXCEPT ![i].pc = "raised"]
               /\ UNCHANGED <<food, returned>>
          ELSE /\ returned' = Return("page", tasks[i], r, data)
               /\ tasks' = [tasks EXCEPT ![i] = [NewTask(@.url) EXCEPT !.pc = "done", !.data = data]]
               /\ food' = Collect(food, fetch_item(data))
               /\ UNCHANGED phase
    /\ UNCHANGED <<N, additional_languages, cat, page, urls, lister, out, requested,
                   got, failures>>

\* ---------------------------------------- fetch_all_items / scrape_items
\* Every task has completed: fetch_items returns food, fetch_all_items sorts
\* and localises it, scrape_items writes the file and takes the next
\* category (or returns).
\* (the results taken as soon as one task has completed)
FirstCompleted(ts) == \E i \in DOMAIN ts : ts[i].pc = "done"
\* "async for r in results" has consumed every task of as_completed.
AllCompleted(ts) == \A i \in DOMAIN ts : ts[i].pc = "done"

WriteFile ==
    /\ phase = "items"
    /\ AllCompleted(tasks)
    /\ out' = [out EXCEPT ![Category] = File(Finalized(food, additional_languages))]
    /\ IF cat < Len(CategoryOrder)
       THEN /\ cat' = cat + 1
            /\ phase' = "urls"
            /\ lister' = NewFetch
       ELSE /\ phase' = "exit"
            /\ lister' = Idle
            /\ UNCHANGED cat
    /\ urls' = <<>>
    /\ tasks' = <<>>
    /\ food' = <<>>
    /\ returned' = NoReturn
    /\ failures' = 0
    /\ UNCHANGED <<N, sem, additional_languages, page, requested, got>>

\* Ctrl-C while the loop runs scrape_items: run_until_complete raises
\* KeyboardInterrupt, main() swallows it, closes the session and the loop
\* and returns.  The tasks in flight are abandoned as they are.
Interrupt ==
    /\ phase \in {"urls", "items"}
    /\ phase' = "interrupted"
    /\ UNCHANGED <<N, sem, additional_languages, cat, page, urls, lister, tasks,
                   food, out, requested, got, returned, failures>>

Next ==
    \/ \E c \in 1..MaxN, args \in LangFileArgs : Main(c, args)
    \/ \E args \in LangFileArgs : MainConfigError(args)
    \/ ListAcquire
    \/ \E r \in Responses(ListingBodies) : ListFail(r)
    \/ \E r \in Responses(ListingBodies) : ListOk(r)
    \/ StartItems
    \/ \E i \in DOMAIN tasks : PageAcquire(i)
    \/ \E i \in DOMAIN tasks, r \in Responses(DetailBodies) : PageFail(i, r)
    \/ \E i \in DOMAIN tasks, r \in Responses(DetailBodies) : PageOk(i, r)
    \/ WriteFile
    \/ Interrupt

Spec == Init /\ [][Next]_vars

\* The run up to the first category's file.
NextFood ==
    \/ \E c \in 1..MaxN, args \in LangFileArgs : Main(c, args)
    \/ \E args \in LangFileArgs : MainConfigError(args)
    \/ ListAcquire /\ cat = 1
    \/ \E r \in Responses(ListingBodies) : ListFail(r) /\ cat = 1
    \/ \E r \in Responses(ListingBodies) : ListOk(r) /\ cat = 1
    \/ StartItems /\ cat = 1
    \/ \E i \in DOMAIN tasks : PageAcquire(i) /\ cat = 1
    \/ \E i \in DOMAIN tasks, r \in Responses(DetailBodies) : PageFail(i, r) /\ cat = 1
    \/ \E i \in DOMAIN tasks, r \in Responses(DetailBodies) : PageOk(i, r) /\ cat = 1
    \/ WriteFile /\ cat = 1
SpecFood == Init /\ [][NextFood]_vars

\* ---------------------------------------------- the end of a category
\* fetch_all_items from the moment fetch_items has collected every pair:
\* the states in which all tasks of a category are done, for every list of
\* up to MaxRecs items and every dict of override tables.
MaxRecs == 2
AllTables == UNION {[D -> Values] : D \in SUBSET Names}
\* The items differ in what the sort and the overrides read: name and ilvl.
AggItems == {Item(n, l, <<>>) : n \in Names, l \in Ilvls}
LangDicts ==
    {d \in SeqsUpTo([lang : Langs, names : AllTables], Cardinality(Langs)) :
        \A i, j \in DOMAIN d : i # j => d[i].lang # d[j].lang}

InitAgg ==
    /\ phase = "items"
    /\ N = 1
    /\ sem = 1
    /\ additional_languages \in LangDicts
    /\ cat = 1
    /\ page = 1
    /\ urls = <<>>
    /\ lister = Idle
    /\ \E ds \in SeqsUpTo(AggItems, MaxRecs) :
          /\ tasks = [i \in DOMAIN ds |-> [NewTask("u1") EXCEPT !.pc = "done", !.data = ds[i]]]
          /\ food = Concat([i \in DOMAIN ds |-> fetch_item(ds[i])])
    /\ out = [c \in {CategoryOrder[i] : i \in DOMAIN CategoryOrder} |-> NoFile]
    /\ requested = {}
    /\ got = <<>>
    /\ returned = NoReturn
    /\ failures = 0

NextAgg == WriteFile
SpecAgg == InitAgg /\ [][NextAgg]_vars

\* ------------------------------------------------- a run end to end
\* Both categories against a catalog whose bodies are listings and items
\* (one of them lacking a field), with transport failures and Ctrl-C.
RunListings ==
    {NetFail} \cup [net : {"ok"}, status : {200},
                    body : {ListingBody("listing", rs, t) :
                               rs \in SeqsUpTo(URLS, MaxUrls), t \in 0..MaxTotal}]
RunDetails ==
    {NetFail} \cup [net : {"ok"}, status : {200},
                    body : {DetailBody(Item("A", 1, <<>>)),
                            DetailBody(Drop(Item("A", 1, <<>>), "level_item"))}]
NextRun ==
    \/ \E c \in 1..MaxN : Main(c, <<>>)
    \/ ListAcquire
    \/ \E r \in RunListings : ListFail(r)
    \/ \E r \in RunListings : ListOk(r)
    \/ StartItems
    \/ \E i \in DOMAIN tasks : PageAcquire(i)
    \/ \E i \in DOMAIN tasks, r \in RunDetails : PageFail(i, r)
    \/ \E i \in DOMAIN tasks, r \in RunDetails : PageOk(i, r)
    \/ WriteFile
    \/ Interrupt
SpecRun == Init /\ [][NextRun]_vars

\* ------------------------------------------- an endpoint that is down
\* The first category against a catalog in which every request for one
\* detail url fails: no attempt on it gets past the transport or the parse.
DownUrl == "u1"
NextDown ==
    \/ \E c \in 1..MaxN, args \in LangFileArgs : Main(c, args)
    \/ \E args \in LangFileArgs : MainConfigError(args)
    \/ ListAcquire /\ cat = 1
    \/ \E r \in Responses(ListingBodies) : ListFail(r) /\ cat = 1
    \/ \E r \in Responses(ListingBodies) : ListOk(r) /\ cat = 1
    \/ StartItems /\ cat = 1
    \/ \E i \in DOMAIN tasks : PageAcquire(i) /\ cat = 1
    \/ \E i \in DOMAIN tasks, r \in Responses(DetailBodies) : PageFail(i, r) /\ cat = 1
    \/ \E i \in DOMAIN tasks, r \in Responses(DetailBodies) :
          tasks[i].url # DownUrl /\ PageOk(i, r) /\ cat = 1
    \/ WriteFile /\ cat = 1
SpecDown == Init /\ [][NextDown]_vars

\* ------------------------------------------- a catalog with fixed items
\* The first category against a catalog that answers every detail url
\* with its one payload; two of its items have the same name and ilvl and
\* differ in their attributes.
Catalog ==
    ("u1" :> Item("A", 1, <<Attr(70, 10)>>)) @@ ("u2" :> Item("A", 1, <<>>))
CatalogResponse(url) == [net |-> "ok", status |-> 200, body |-> DetailBody(Catalog[url])]
NextOrder ==
    \/ \E c \in 1..MaxN, args \in {<<>>} \cup {<<a>> : a \in GoodLangFiles} : Main(c, args)
    \/ ListAcquire /\ cat = 1
    \/ \E r \in RunListings : ListFail(r) /\ cat = 1
    \/ \E r \in RunListings : ListOk(r) /\ cat = 1
    \/ StartItems /\ cat = 1
    \/ \E i \in DOMAIN tasks : PageAcquire(i) /\ cat = 1
    \/ \E i \in DOMAIN tasks : PageFail(i, NetFail) /\ cat = 1
    \/ \E i \in DOMAIN tasks : PageOk(i, CatalogResponse(tasks[i].url)) /\ cat = 1
    \/ WriteFile /\ cat = 1
SpecOrder == Init /\ [][NextOrder]_vars

\* ------------------------------------------------ a run that is let run
\* Both categories against a catalog whose answers are well formed, with
\* transport failures (finitely many: MaxFail per category) and no Ctrl-C.
LiveDetails ==
    {NetFail, [net |-> "ok", status |-> 200, body |-> DetailBody(Item("A", 1, <<>>))]}
\* The steps the event loop takes by itself: it resumes every coroutine
\* that is ready, among them a task waiting for a permit that is free.
Scheduled ==
    \/ \E c \in 1..MaxN : Main(c, <<>>)
    \/ ListAcquire
    \/ StartItems
    \/ \E i \in DOMAIN tasks : PageAcquire(i)
    \/ WriteFile
\* The steps in which a request is answered with a body that parses.
Answered ==
    \/ \E r \in RunListings : ListOk(r)
    \/ \E i \in DOMAIN tasks, r \in LiveDetails : PageOk(i, r)
\* The steps in which an attempt fails.
Failed ==
    \/ \E r \in RunListings : ListFail(r)
    \/ \E i \in DOMAIN tasks, r \in LiveDetails : PageFail(i, r)
NextLive == Scheduled \/ Answered \/ Failed
\* A ready coroutine is run, and a request that cannot fail any more is
\* answered.
SpecLive == Init /\ [][NextLive]_vars /\ WF_vars(Scheduled) /\ WF_vars(Answered)

\* ------------------------------------------------ one detail payload
\* fetch_item applied to every well-formed payload with up to MaxAttrs
\* attributes: the task holds the permit with its GET under way, and the
\* response that arrives carries the payload.
MaxAttrs == 2
AttrIds == {70, 71, 11, 5}
AttrValues == {10, 20}
AttrPayloads ==
    {Item("A", 1, as) : as \in SeqsUpTo({Attr(id, v) : id \in AttrIds, v \in AttrValues}, MaxAttrs)}

InitItem ==
    /\ phase = "items"
    /\ N = 1
    /\ sem = 0
    /\ additional_languages = <<>>
    /\ cat = 1
    /\ page = 1
    /\ urls = <<>>
    /\ lister = Idle
    /\ tasks = <<Attempt(NewTask("u1"))>>
    /\ food = <<>>
    /\ out = [c \in {CategoryOrder[i] : i \in DOMAIN CategoryOrder} |-> NoFile]
    /\ requested = {}
    /\ got = <<>>
    /\ returned = NoReturn
    /\ failures = 0

NextItem ==
    \E r \in Responses({DetailBody(d) : d \in AttrPayloads}) : PageOk(1, r)
SpecItem == InitItem /\ [][NextItem]_vars

\* ================================================================ claims

\* C1: at most N requests are in flight at any time, listing and detail
\* fetches counted together, whatever the interleaving and the failures.
C1_AtMostNInFlight == Holders <= N

\* C1 witness: capacity 1, one detail request in flight after a failed
\* attempt, another task kept waiting for the permit.
C1_Witness ==
    /\ N = 1
    /\ failures > 0
    /\ \E i, j \in DOMAIN tasks : tasks[i].pc = "get" /\ tasks[j].pc = "acquire"

\* C2: every attempt gives its permit back on every exit path, so the
\* permits available plus the permits held always make N.
C2_PermitsConserved == sem + Holders = N

\* C2 witness: a detail fetch whose attempt raised is back at the acquire and
\* all N permits are available again.
C2_Witness ==
    /\ phase = "items"
    /\ sem = N
    /\ N >= 1
    /\ \E i \in DOMAIN tasks : tasks[i].pc = "acquire" /\ tasks[i].fails > 0

\* C3: a fetch that returns after k failed attempts made exactly k+1
\* attempts and returns the value parsed from the body of the last one,
\* which was a body that parses.
C3_ReturnsLastAttempt ==
    returned.kind # "none" =>
        /\ returned.attempts = returned.fails + 1
        /\ returned.resp.net = "ok"
        /\ returned.kind = "links" =>
              /\ returned.resp.body.kind = "listing"
              /\ returned.value.urls = returned.resp.body.results
              /\ returned.value.total = returned.resp.body.total
        /\ returned.kind = "page" =>
              /\ returned.resp.body.kind = "json"
              /\ returned.value = returned.resp.body.data

\* C3 witness: a detail fetch returned after MaxFail failed attempts.
C3_Witness ==
    /\ returned.kind = "page"
    /\ returned.fails = MaxFail
    /\ returned.attempts = MaxFail + 1
    /\ phase = "items"

\* C4: a response with a non-2xx status is retried: no fetch returns a value
\* taken from a response whose status is not 2xx.
C4_Non2xxNeverReturned ==
    returned.kind # "none" =>
        (returned.resp.status >= 200 /\ returned.resp.status <= 299)

\* C5: no listing or detail operation ends in an error: a payload that lacks
\* an expected field is retried, never raised out of fetch_item_urls or
\* fetch_item.
C5_NoOperationRaises ==
    /\ lister.pc # "raised"
    /\ \A i \in DOMAIN tasks : tasks[i].pc # "raised"

\* The pages of this category that have returned so far.
PagesDone == Len(got)

\* C6: pages 1, 2, 3, ... are requested in order, and the enumeration halts
\* exactly after the first page p that parsed with p >= its own total: every
\* earlier page had page < total, and no page beyond p is ever requested.
C6_HaltsAtTotal ==
    /\ phase = "urls" /\ lister.pc \in {"acquire", "get"} =>
          /\ PagesDone = page - 1
          /\ requested = 1..(IF lister.pc = "get" \/ lister.fails > 0 THEN page ELSE page - 1)
    /\ phase = "urls" /\ lister.pc = "returned" =>
          /\ PagesDone = page
          /\ page >= got[page].total
          /\ requested = 1..page
    /\ \A p \in 1..PagesDone :
          p < PagesDone \/ (phase = "urls" /\ lister.pc \in {"acquire", "get"})
             => p < got[p].total
    /\ phase \in {"items", "exit"} => requested = {} /\ lister.pc = "idle"

\* C6 witness: the enumeration returned after page 2, whose total (1 or 0)
\* differs from the total page 1 reported.
C6_Witness ==
    /\ phase = "urls"
    /\ lister.pc = "returned"
    /\ page = 2
    /\ got[2].total < got[1].total
    /\ requested = {1, 2}

\* C6 witness of the one-page case: page 1 reported total <= 1.
C6_WitnessOnePage ==
    /\ phase = "urls"
    /\ lister.pc = "returned"
    /\ got[1].total <= 1
    /\ requested = {1}

\* C7: the url list is the concatenation, in page order, of the result lists
\* of the bodies that parsed, one per page; failed attempts add nothing and
\* no page is added twice, so its length is the sum of the pages' counts.
RECURSIVE SumLen(_)
SumLen(ss) == IF ss = <<>> THEN 0 ELSE Len(Head(ss)) + SumLen(Tail(ss))
PageLists == [p \in 1..PagesDone |-> got[p].results]
C7_UrlsArePagesInOrder ==
    phase = "urls" /\ lister.pc # "raised" =>
        /\ urls = Concat(PageLists)
        /\ Len(urls) = SumLen(PageLists)

\* C7 witness: two pages with different non-empty lists, after a failed
\* attempt, and the enumeration has returned.
C7_Witness ==
    /\ phase = "urls"
    /\ lister.pc = "returned"
    /\ PagesDone = 2
    /\ got[1].results # <<>>
    /\ got[2].results # <<>>
    /\ got[1].results # got[2].results
    /\ failures > 0

\* The files written so far, and the identity (English name, ilvl, hq).
Written == {c \in DOMAIN out : out[c].written}
Ident(r) == <<r.name.en, r.ilvl, r.hq>>
HasDuplicates(list) ==
    \E i, j \in DOMAIN list : i # j /\ Ident(list[i]) = Ident(list[j])

\* C8 as stated: a written file holds no two records with the same
\* (English name, ilvl, hq), whatever the listing pages returned.
C8_NoDuplicates == \A c \in Written : ~HasDuplicates(out[c].recipes)

\* The table configured for the language code "en", if there is one, and the
\* English name a fetched name ends up as.
EnTables == {additional_languages[k].names :
                k \in {j \in DOMAIN additional_languages : additional_languages[j].lang = "en"}}
Overridden(t, e) == IF e \in DOMAIN t /\ t[e] # "" THEN t[e] ELSE e
FinalEnglish(e) == IF EnTables = {} THEN e ELSE Overridden(CHOOSE t \in EnTables : TRUE, e)

\* C8 amended: nothing is deduplicated.  The file written for a category
\* holds two records for every enumerated url, and for every (English name,
\* ilvl, hq) as many records as there are enumerated urls whose item has
\* that name (after an "en" override, if any) and ilvl.
C8_TwoRecordsPerUrl ==
    [][out' # out =>
        LET f == out'[Category].recipes IN
        /\ Len(f) = 2 * Len(tasks)
        /\ \A n \in Values, l \in Ilvls, h \in BOOLEAN :
              Cardinality({i \in DOMAIN f : Ident(f[i]) = <<n, l, h>>})
              = Cardinality({i \in DOMAIN tasks :
                               /\ FinalEnglish(tasks[i].data.name_en) = n
                               /\ tasks[i].data.level_item = l})]_vars

\* C8 witness: the first category's file holds the records of one item
\* twice, because its url was enumerated twice.
C8_Witness ==
    /\ out["Food"].written
    /\ Len(out["Food"].recipes) = 4
    /\ HasDuplicates(out["Food"].recipes)
    /\ \E i \in DOMAIN out["Food"].recipes : out["Food"].recipes[i].hq
    /\ \E i \in DOMAIN out["Food"].recipes : ~out["Food"].recipes[i].hq

\* C9: every written file is sorted descending by (ilvl, name.en, hq), with
\* false < true, for every override table and set of language codes.
SortedDescending(list) ==
    \A i \in 1..(Len(list) - 1) : KeyGeq(SortKey(list[i]), SortKey(list[i + 1]))
C9_SortedDescending == \A c \in Written : SortedDescending(out[c].recipes)

\* C10 as stated: a record's name for an override language is the table's
\* value for its English name whenever the table has that key, whatever the
\* value, and the English name otherwise.
C10_TableValueWheneverPresent ==
    \A c \in Written : \A i \in DOMAIN out[c].recipes : \A k \in DOMAIN additional_languages :
        LET r == out[c].recipes[i]
            l == additional_languages[k]
            e == r.name.en
        IN  r.name[l.lang] = IF e \in DOMAIN l.names THEN l.names[e] ELSE e

\* The English name a record has when the k-th override language is applied:
\* the fetched one, unless "en" is an override language applied before.
EnglishWhen(e, k) ==
    IF \E j \in 1..(k - 1) : additional_languages[j].lang = "en" THEN FinalEnglish(e) ELSE e

\* C10 amended: a record's name for an override language is the table's
\* value for the English name the record has when that language is applied,
\* if the table has that key with a non-empty value, and that English name
\* otherwise: a key stored with an empty string falls back as well.
C10_NonEmptyValueOrEnglish ==
    [][out' # out =>
        LET f == out'[Category].recipes
            pre == SortDesc(food)
        IN  /\ Len(f) = Len(pre)
            /\ \A i \in DOMAIN f : \A k \in DOMAIN additional_languages :
                  LET l == additional_languages[k]
                      e == EnglishWhen(pre[i].name.en, k)
                  IN  f[i].name[l.lang] =
                         IF e \in DOMAIN l.names /\ l.names[e] # "" THEN l.names[e] ELSE e]_vars

\* C10 witness: a file in which one record took a table's non-empty value
\* and another, whose English name the table stores with an empty string,
\* kept its English name.
C10_Witness ==
    /\ out["Food"].written
    /\ \E k \in DOMAIN additional_languages :
          LET l == additional_languages[k] IN
          /\ l.lang # "en"
          /\ EnTables = {}
          /\ \E i, j \in DOMAIN out["Food"].recipes :
                LET r == out["Food"].recipes[i]
                    q == out["Food"].recipes[j]
                IN  /\ r.name.en \in DOMAIN l.names
                    /\ l.names[r.name.en] = ""
                    /\ r.name[l.lang] = r.name.en
                    /\ q.name.en \in DOMAIN l.names
                    /\ l.names[q.name.en] \notin {"", q.name.en}
                    /\ q.name[l.lang] = l.names[q.name.en]


\* The name mapping and ilvl the records of a harvested payload end up with.
FinalName(data) == LocalizeRecord(BaseRecord(data, FALSE), additional_languages).name
SameItem(d, e) == FinalName(d) = FinalName(e) /\ d.level_item = e.level_item

\* C11: when a category's file is written, every harvested item (every
\* detail task that completed) has exactly one hq=false and one hq=true
\* record in the list, both with the item's ilvl and the same name mapping
\* for every language, override languages included; the list has twice as
\* many records as urls were enumerated.
C11_OnePairPerItem ==
    [][out' # out =>
        LET f == out'[Category].recipes IN
        /\ Len(f) = 2 * Len(tasks)
        /\ \A i \in DOMAIN tasks : \A h \in BOOLEAN :
              Cardinality({k \in DOMAIN f :
                              /\ f[k].hq = h
                              /\ f[k].name = FinalName(tasks[i].data)
                              /\ f[k].ilvl = tasks[i].data.level_item})
              = Cardinality({j \in DOMAIN tasks : SameItem(tasks[j].data, tasks[i].data)})]_vars

\* C11 witness: a file of four records harvested from two different items,
\* written with an override language configured.
C11_Witness ==
    /\ out["Food"].written
    /\ additional_languages # <<>>
    /\ Len(out["Food"].recipes) = 4
    /\ \E i, j \in DOMAIN out["Food"].recipes :
          /\ "craftsmanship_value" \in DOMAIN out["Food"].recipes[i]
          /\ "craftsmanship_value" \notin DOMAIN out["Food"].recipes[j]


\* The stats fetch_item copies, by attribute id.
StatFields ==
    {[id |-> 70, value |-> "craftsmanship_value", percent |-> "craftsmanship_percent"],
     [id |-> 71, value |-> "control_value", percent |-> "control_percent"],
     [id |-> 11, value |-> "cp_value", percent |-> "cp_percent"]}
Occurrences(attrs, id) == {k \in DOMAIN attrs : attrs[k].id = id}
LastOf(attrs, id) == attrs[CHOOSE k \in Occurrences(attrs, id) :
                              \A m \in Occurrences(attrs, id) : m <= k]
StatsCopied(data, lo, hi) ==
    LET attrs == data.attributes_params
        present == {s \in StatFields : Occurrences(attrs, s.id) # {}}
        fields == {"name", "hq", "ilvl"} \cup {s.value : s \in present}
                                         \cup {s.percent : s \in present}
    IN  /\ DOMAIN lo = fields
        /\ DOMAIN hi = fields
        /\ \A s \in present :
              LET a == LastOf(attrs, s.id) IN
              /\ lo[s.value] = a.value
              /\ lo[s.percent] = a.percent
              /\ hi[s.value] = a.value_hq
              /\ hi[s.percent] = a.percent_hq

\* C12: when a detail task completes, the pair it adds has, for each of the
\* ids 70 (craftsmanship), 71 (control) and 11 (cp) present in the payload,
\* value/percent in the hq=false record and value_hq/percent_hq in the
\* hq=true record (of the last attribute with that id); an absent id leaves
\* no such field in either record and other ids add no field.
C12_StatsCopiedPerQuality ==
    [][\A i \in DOMAIN tasks :
          (i \in DOMAIN tasks' /\ tasks[i].pc = "get" /\ tasks'[i].pc = "done") =>
              /\ Len(food') = Len(food) + 2
              /\ ~food'[Len(food') - 1].hq
              /\ food'[Len(food')].hq
              /\ StatsCopied(tasks'[i].data, food'[Len(food') - 1], food'[Len(food')])]_vars

\* C12 witness: a completed task whose payload has attribute 70, an
\* attribute with another id and no attribute 71, and whose pair carries the
\* craftsmanship fields.
C12_Witness ==
    /\ Len(tasks) = 1
    /\ tasks[1].pc = "done"
    /\ Len(food) = 2
    /\ Occurrences(tasks[1].data.attributes_params, 70) # {}
    /\ Occurrences(tasks[1].data.attributes_params, 5) # {}
    /\ Occurrences(tasks[1].data.attributes_params, 71) = {}
    /\ food[1].craftsmanship_value = 10
    /\ food[2].craftsmanship_value = 12
    /\ "control_value" \notin DOMAIN food[1]


\* A run that stopped without completing: Ctrl-C, or an exception out of
\* main() or of a task.
Stopped(ph) == ph \in {"interrupted", "error"}

\* C13: a category's file is written only in a step taken when its
\* enumeration has returned and every one of its detail tasks is done, and
\* that step changes no other file; while a category is in progress, or
\* after the run was interrupted or aborted in it, that category has no
\* file, and a stopped run writes nothing more.
C13_WrittenOnlyWhenFinalized ==
    [][/\ out' # out =>
            /\ phase = "items"
            /\ lister = Idle
            /\ \A i \in DOMAIN tasks : tasks[i].pc = "done"
            /\ Len(food) = 2 * Len(tasks)
            /\ out'[Category].written
            /\ \A c \in DOMAIN out : c # Category => out'[c] = out[c]
       /\ Stopped(phase') => out' = out
       /\ ~Stopped(phase)
       /\ phase' # "exit" => ~out'[CategoryOrder[cat']].written]_vars

\* C13 witness: the run was interrupted during the second category with a
\* detail request in flight; the first category's file is there, the second
\* category has none.
C13_Witness ==
    /\ phase = "interrupted"
    /\ cat = 2
    /\ out["Food"].written
    /\ ~out["Medicine"].written
    /\ \E i \in DOMAIN tasks : tasks[i].pc = "get"
    /\ \E i \in DOMAIN tasks : tasks[i].pc = "done"

\* C13 witness: the run was aborted by a payload lacking a field during the
\* second category.
C13_WitnessAborted ==
    /\ phase = "error"
    /\ cat = 2
    /\ out["Food"].written
    /\ ~out["Medicine"].written


\* The detail tasks whose endpoint is down.
DownTasks == {i \in DOMAIN tasks : tasks[i].url = DownUrl}

\* C14: from the moment a task fetches an endpoint that fails on every
\* attempt, every step leaves that task in its retry loop (waiting for a
\* permit or with a request in flight, no value returned, no error raised)
\* and leaves the files as they are, so its category is never written; a
\* failed attempt takes the task back to the acquire and the next attempt is
\* a new one.
C14_DownTaskRetriesForever ==
    [][/\ DownTasks # {} =>
            /\ out' = out
            /\ phase' \notin {"urls", "exit"}
            /\ DOMAIN tasks' = DOMAIN tasks
            /\ \A i \in DownTasks :
                  /\ tasks'[i].url = DownUrl
                  /\ tasks'[i].pc \in {"acquire", "get"}
                  /\ tasks'[i].data = NoData
       /\ \A i \in DOMAIN tasks \cap DOMAIN tasks' :
            /\ tasks'[i].fails = tasks[i].fails + 1 =>
                  /\ tasks[i].pc = "get"
                  /\ tasks'[i].pc = "acquire"
                  /\ tasks'[i].attempts = tasks[i].attempts
            /\ (tasks[i].pc = "acquire" /\ tasks'[i].pc = "get") =>
                  tasks'[i].attempts = tasks[i].attempts + 1]_vars

\* C14 witness: the task of the down endpoint is in its attempt number
\* MaxFail + 1 after MaxFail failures, the other task of the category has
\* completed, and the category has no file.
C14_Witness ==
    /\ phase = "items"
    /\ ~out["Food"].written
    /\ \E i \in DownTasks :
          /\ tasks[i].pc = "get"
          /\ tasks[i].fails = MaxFail
          /\ tasks[i].attempts = MaxFail + 1
    /\ \E j \in DOMAIN tasks : tasks[j].pc = "done"


\* An override argument of the form LANG=FILE whose file opens and parses.
Loadable(a) == a.form = "LANG=FILE" /\ a.file = "json"

\* C15: main() either aborts, with no semaphore created, no permit taken,
\* no request issued and no file written, or starts the run with the tables
\* of arguments that were all loadable; after the abort nothing happens.
C15_ConfigErrorBeforeNetwork ==
    [][/\ phase = "main" =>
            \/ /\ phase' = "error"
               /\ N' = 0
               /\ sem' = 0
               /\ lister' = Idle
               /\ tasks' = <<>>
               /\ requested' = {}
               /\ out' = out
            \/ /\ phase' = "urls"
               /\ N' >= 1
               /\ \E args \in LangFileArgs :
                     /\ \A i \in DOMAIN args : Loadable(args[i])
                     /\ additional_languages' = LoadLanguages(<<>>, args)
       /\ ~(phase = "error" /\ N = 0)]_vars

\* C15 witness: the run has aborted in main() on an override argument; no
\* semaphore exists and nothing was requested.
C15_Witness ==
    /\ phase = "error"
    /\ N = 0
    /\ sem = 0
    /\ Holders = 0
    /\ requested = {}
    /\ lister = Idle
    /\ \A c \in DOMAIN out : ~out[c].written


\* The list fetch_items collects when the tasks complete in the order of
\* their urls.
InUrlOrder == Concat([i \in DOMAIN tasks |-> fetch_item(tasks[i].data)])

\* C16: the list written for a category does not depend on the order in
\* which the detail tasks completed: it is the list obtained from the
\* payloads taken in the order of the enumerated urls, also when two items
\* share ilvl and English name.
C16_CompletionOrderIrrelevant ==
    [][out' # out =>
          out'[Category].recipes = Finalized(InUrlOrder, additional_languages)]_vars


\* The detail tasks that have completed, and the record h of task i's pair.
DoneTasks == {i \in DOMAIN tasks : tasks[i].pc = "done"}
PairRecord(i, h) == fetch_item(tasks[i].data)[h]
\* food holds the pairs of the completed tasks, each once, and nothing else.
PairsOfDoneTasks ==
    /\ Len(food) = 2 * Cardinality(DoneTasks)
    /\ \A k \in 1..Cardinality(DoneTasks) :
          \E i \in DoneTasks :
             food[2 * k - 1] = PairRecord(i, 1) /\ food[2 * k] = PairRecord(i, 2)
    /\ \A i \in DoneTasks : \A h \in 1..2 :
          Cardinality({k \in DOMAIN food : food[k] = PairRecord(i, h)})
          = Cardinality({j \in DoneTasks : PairRecord(j, h) = PairRecord(i, h)})

\* C17: while the detail tasks of a category run, the list fetch_items has
\* collected is a permutation of the pairs of the tasks completed so far,
\* none lost and none repeated, whatever the completion order; the list is
\* handed on only when every submitted task has completed.
C17_EveryResultExactlyOnce ==
    [][/\ phase' = "items" => PairsOfDoneTasks'
       /\ (tasks # <<>> /\ tasks' = <<>>) =>
             /\ DoneTasks = DOMAIN tasks
             /\ PairsOfDoneTasks
             /\ Len(out'[Category].recipes) = 2 * Len(tasks)]_vars

\* C17 witness: both tasks have completed, the second url's task first, and
\* the list holds its pair before the pair of the first url's task.
C17_Witness ==
    /\ phase = "items"
    /\ Len(tasks) = 2
    /\ DoneTasks = {1, 2}
    /\ tasks[1].data # tasks[2].data
    /\ food = fetch_item(tasks[2].data) \o fetch_item(tasks[1].data)


\* C18: a listing request is issued only by the one enumeration of the
\* category, for the page after the pages that have returned, with no other
\* listing request in flight; during the enumeration at most one request is
\* in flight whatever the capacity N.
C18_PagesOneAtATime ==
    [][/\ (lister.pc = "acquire" /\ lister'.pc = "get") =>
            /\ PagesDone = page - 1
            /\ requested \subseteq 1..page
            /\ requested' = requested \cup {page}
            /\ Holders = 0
       /\ phase' = "urls" =>
            /\ tasks' = <<>>
            /\ Holders' <= 1
            /\ \A p \in requested' : p <= PagesDone' + 1]_vars

\* C18 witness: with two permits, page 2 is being requested again after a
\* failed attempt; page 1 has returned, one permit is free and no other
\* request is in flight.
C18_Witness ==
    /\ phase = "urls"
    /\ N = 2
    /\ sem = 1
    /\ page = 2
    /\ PagesDone = 1
    /\ lister.pc = "get"
    /\ lister.fails >= 1
    /\ requested = {1, 2}


\* The categories before, and from, the one scrape_items is at.
Earlier == {CategoryOrder[k] : k \in 1..(cat - 1)}
Later == {CategoryOrder[k] : k \in cat..Len(CategoryOrder)}

\* C19: the detail tasks of a category are created in a step taken after
\* its enumeration has returned, one per url of the complete list, and no
\* listing fetch runs beside them; a request is issued only with the files
\* of all earlier categories written; the categories are taken one by one
\* in the order Food, Medicine, the next one only in the step that writes
\* the file of the current one.
C19_PhasesInOrder ==
    [][/\ (tasks = <<>> /\ tasks' # <<>>) =>
            /\ lister.pc = "returned"
            /\ PagesDone = page
            /\ tasks' = [i \in DOMAIN urls |-> NewTask(urls[i])]
       /\ tasks' # <<>> => lister' = Idle
       /\ Holders' > Holders =>
            /\ \A c \in Earlier : out[c].written
            /\ \A c \in Later : ~out[c].written
       /\ cat' # cat =>
            /\ cat' = cat + 1
            /\ ~out[Category].written
            /\ out'[Category].written
       /\ out'["Medicine"].written => out'["Food"].written
       /\ CategoryOrder[cat'] = IF out'["Food"].written THEN "Medicine" ELSE "Food"]_vars

\* C19 witness: a detail request of the second category is in flight; the
\* first category's file is written and holds records.
C19_Witness ==
    /\ Category = "Medicine"
    /\ phase = "items"
    /\ \E i \in DOMAIN tasks : tasks[i].pc = "get"
    /\ out["Food"].written
    /\ out["Food"].recipes # <<>>
    /\ ~out["Medicine"].written


\* C20: when requests fail only finitely often, payloads are well formed
\* and page totals are bounded, the run eventually ends with the file of
\* every category written and all N permits free.
C20_RunCompletes ==
    <>(/\ phase = "exit"
       /\ \A c \in DOMAIN out : out[c].written
       /\ N >= 1
       /\ sem = N)

\* C20 witness: the run has ended with one permit configured, both files
\* written, records in the second one, and the permit free.
C20_Witness ==
    /\ phase = "exit"
    /\ N = 1
    /\ sem = 1
    /\ out["Food"].written
    /\ out["Medicine"].written
    /\ Len(out["Medicine"].recipes) = 2 * MaxUrls

====
